---- MODULE Spec2Model ----
(***************************************************************************)
(* State-machine model of src/src/libcamera_ros_driver.cpp:                *)
(* LibcameraRosDriver::onInit, ~LibcameraRosDriver,                        *)
(* declareControlParameters, updateControlParameter and requestComplete,   *)
(* together with the device layer (libcamera) they call into.              *)
(*                                                                         *)
(* Threads: the main thread runs onInit and later the destructor; the      *)
(* device layer completes queued requests and dispatches requestComplete   *)
(* for each of them.                                                       *)
(***************************************************************************)
EXTENDS Integers, Sequences, FiniteSets, TLC

(* ------------------------------ bounds --------------------------------- *)

\* number of frame buffers the allocator hands out at most
NumBuffers == 2

\* number of request completions the device produces in one run
MaxCompletions == 2

\* control values and bounds range over 0..MaxVal
MaxVal == 3

Buffers == 1..NumBuffers

(* --------------------------- parameters -------------------------------- *)

\* the parameters read by onInit, in the order of the source
ParamOrder ==
  << "camera_name", "camera_id", "stream_role", "pixel_format", "frame_id",
     "calib_url", "resolution/width", "resolution/height", "use_ros_time",
     "remove_stride" >>

ParamNames == { ParamOrder[i] : i \in DOMAIN ParamOrder }

\* the chain  success = success && get...ParamCheck(...)  over all ten reads
LoadSuccessFirstOnly(present) == ParamOrder[1] \in present

LoadSuccess(present) == \A i \in DOMAIN ParamOrder : ParamOrder[i] \in present

\* && does not evaluate its right side once success is false: parameter i is
\* read, and its variable assigned, when every parameter before it was present
IsRead(present, i) == \A j \in 1..i : ParamOrder[j] \in present

\* the values the parameter server holds for use_ros_time and remove_stride
\* when it holds them
LaunchFlags == { [use_ros_time |-> TRUE, remove_stride |-> TRUE] }

(* ---------------------------- controls --------------------------------- *)

\* the controls of the model: a scalar integer control, an array control of
\* fixed length and a boolean control
ControlNames == { "ExposureTime", "FrameDurationLimits", "AwbEnable" }

\* the optional control blocks of onInit that the model follows, in source
\* order: [param, control, guarded]; guarded is the null check of AwbEnable.
\* The other blocks have the shape of the first.
ControlBlocks ==
  << [param |-> "control/exposure_time", control |-> "ExposureTime",
      guarded |-> FALSE],
     [param |-> "control/awb_enable", control |-> "AwbEnable",
      guarded |-> TRUE] >>

\* libcamera::ControlId::type() of the controls
IdType(name) ==
  CASE name = "ExposureTime" -> "Integer32"
    [] name = "FrameDurationLimits" -> "Integer64"
    [] name = "AwbEnable" -> "Bool"

\* get_extent(id): 0 for a scalar, the fixed length of an array control
get_extent(name) ==
  CASE name = "ExposureTime" -> 0
    [] name = "FrameDurationLimits" -> 2
    [] name = "AwbEnable" -> 0

\* a libcamera::ControlValue: type tag, array flag, elements
NoneValue == [type |-> "None", isArray |-> FALSE, elems |-> << >>]

Scalar(t, x) == [type |-> t, isArray |-> FALSE, elems |-> << x >>]

Array(t, s) == [type |-> t, isArray |-> TRUE, elems |-> s]

isNone(v) == v.type = "None"

numElements(v) == Len(v.elems)

\* value < bound  and  value > bound  on control values (bound is a scalar);
\* the arrays of the model have equal elements
Less(v, bound) == \E i \in DOMAIN v.elems : v.elems[i] < bound

Greater(v, bound) == \E i \in DOMAIN v.elems : v.elems[i] > bound

\* absent entry of parameters_
NoEntry == [type |-> "NoEntry", isArray |-> FALSE, elems |-> << >>]

NoControls == [n \in ControlNames |-> NoEntry]

\* absent entry of camera_->controls()
NoInfo == [present |-> FALSE, min |-> 0, max |-> 0]

Info(lo, hi) == [present |-> TRUE, min |-> lo, max |-> hi]

(* ------------------------------ frames --------------------------------- *)

\* bounds of the stream configurations of the frame specification
MaxWidth == 2

MaxHeight == 2

\* padding bytes at the end of a row: stride = width * bytes per pixel + pad
MaxPad == 1

\* number of frames the timestamp specification completes
MaxFrames == 3

\* the  3  of  cfg.size.width * 3  in requestComplete
BytesPerPixel == 3

\* bytes per pixel of the RAW formats the stream may be configured with
\* (8 bit mono, 24 bit colour, 32 bit colour)
FormatBytes == { 1, 3, 4 }

\* nanoseconds per second of ros::Time and ros::Duration
NsPerSec == 1000000000

\* ros::Time().fromNSec(t)
fromNSec(t) == [sec |-> t \div NsPerSec, nsec |-> t % NsPerSec]

\* seconds and nanoseconds normalised to 0 <= nsec < NsPerSec
normalizeSecNSec(sec, nsec) ==
  [sec |-> sec + (nsec \div NsPerSec), nsec |-> nsec % NsPerSec]

\* ros::Time - ros::Time, a ros::Duration
TimeMinus(a, b) == normalizeSecNSec(a.sec - b.sec, a.nsec - b.nsec)

\* ros::Time + ros::Duration
TimePlus(t, d) == normalizeSecNSec(t.sec + d.sec, t.nsec + d.nsec)

ZeroTime == [sec |-> 0, nsec |-> 0]

\* the byte at offset k of a mapping of the given size: the bytes of the
\* buffer are told apart by their offsets, -2 is what a read outside the
\* mapping yields when it does not fault
srcByte(k, size) == IF k < size THEN k ELSE -2

\* image_msg.data.resize(n) of an empty vector: n bytes that are no source byte
resize(n) == [j \in 1..n |-> -1]

\* line 645: memcpy of the whole mapping
copyAll(size) == [j \in 1..size |-> srcByte(j - 1, size)]

\* line 659: memcpy of row i, width * 3 bytes from offset i * stride of the
\* source to offset i * width * 3 of data
copyRow(data, i, str, size) ==
  [j \in DOMAIN data |->
     IF j - 1 >= i * str.width * BytesPerPixel
          /\ j - 1 < (i + 1) * str.width * BytesPerPixel
       THEN srcByte(i * str.stride + (j - 1 - i * str.width * BytesPerPixel),
                    size)
       ELSE data[j]]

NoImage == [step |-> 0, data |-> << >>]

\* the completed request a frame handler is invoked for: its number in the
\* run, the number of requests with status Complete so far (this one
\* included), request->status(), the sum of the planes' bytesused,
\* metadata.timestamp, and what ros::Time::now() returns during the handler
Meta(no, completed, status, bytesused, timestamp, now) ==
  [no |-> no, completed |-> completed, status |-> status,
   bytesused |-> bytesused, timestamp |-> timestamp, now |-> now]

NoMeta == Meta(0, 0, "Cancelled", 0, 0, ZeroTime)

NoStream == [width |-> 0, height |-> 0, stride |-> 0, bpp |-> 0]

(* ----------------------------- state ----------------------------------- *)

VARIABLES
  pc,             \* position of the main thread in onInit / the destructor
  crashed,        \* the process died (null dereference, fault)
  shutdown,       \* ros::shutdown() was called
  cmRunning,      \* camera_manager_ is started
  camera_,        \* "null" or "set"
  camState,       \* libcamera camera state: Available, Acquired, Configured, Running
  started,        \* camera_->start() succeeded at some point
  formatType,     \* format_type(cfg.pixelFormat) of the configured stream
  controls,       \* camera_->controls(): control name -> ControlInfo
  parameter_ids_, \* control name -> "absent" | "id" | "null"
  parameters_,    \* control id -> staged ControlValue or NoEntry
  derefNull,      \* a null ControlId pointer was dereferenced
  ctlIdx,         \* index of the next control block of onInit
  nbuf,           \* number of buffers of the allocator
  bufIdx,         \* index of the next buffer of the mapping / queueing loop
  buffer_info_,   \* set of buffers with an entry in buffer_info_
  mapped,         \* buffer -> its memory is currently mapped
  mapCalls,       \* buffer -> number of successful mmap calls
  unmapCalls,     \* buffer -> number of munmap calls
  requests_,      \* set of requests of the pool (request i holds buffer i)
  reqState,       \* request -> Idle | Queued | Complete | Cancelled
  reqControls,    \* request -> the control list it carries
  connected,      \* requestCompleted is connected to requestComplete
  request_lock_,  \* "free", "main" or the request whose handler holds it
  hpc,            \* request -> position of its completion handler
  hpub,           \* request -> its running handler has published a frame
  completions,    \* number of completions the device produced
  syncStop,       \* Camera::stop()/CameraManager::stop() run on the thread that dispatches the callbacks
  stopFailed,     \* camera_->stop() reported failure
  unmapTodo,      \* entries of buffer_info_ the destructor's loop has not visited
  tlog,           \* steps the destructor performed, in order
  ucpLast,        \* the call of updateControlParameter the validator specification made last
  paramServer,    \* names of the parameters the parameter server holds
  remove_stride_, \* member remove_stride_
  use_ros_time_,  \* member _use_ros_time_
  image_pub_mutex_, \* "free" or the request whose handler holds it
  reqBuffers,     \* request -> the buffers attached to it
  initQueued,     \* request -> number of queueRequest calls onInit made for it
  stream,         \* stream_->configuration(): width, height, stride, bytes per pixel
  bufSize,        \* buffer_info_[buffer].size of the buffer of the frame handler
  ndebug,         \* the build defines NDEBUG: assert() compiles to nothing
  meta,           \* the completed request: status, bytesused, timestamp, clock reading
  start_time_offset_,          \* member start_time_offset_
  start_time_offset_obtained_, \* member start_time_offset_obtained_
  hdr,            \* std_msgs::Header hdr of the frame handler: its stamp
  image_msg,      \* sensor_msgs::Image image_msg: step and data
  row,            \* loop variable i of the stride removal
  sink,           \* what image_pub_.publish was called with, in order
  fpc,            \* position of the frame handler
  oob             \* a memcpy of the frame handler read outside the mapping

vars ==
  << pc, crashed, shutdown, cmRunning, camera_, camState, started, formatType,
     controls, parameter_ids_, parameters_, derefNull, ctlIdx, nbuf, bufIdx,
     buffer_info_, mapped, mapCalls, unmapCalls, requests_, reqState,
     reqControls, connected, request_lock_, hpc, hpub, completions, syncStop,
     stopFailed, unmapTodo, tlog, ucpLast, paramServer, remove_stride_,
     use_ros_time_, image_pub_mutex_, reqBuffers, initQueued, stream, bufSize,
     ndebug, meta, start_time_offset_, start_time_offset_obtained_, hdr,
     image_msg, row, sink, fpc, oob >>

devVars == << cmRunning, camera_, camState, started, formatType >>

ctlVars == << controls, parameter_ids_, parameters_, derefNull, ctlIdx >>

bufVars == << nbuf, bufIdx, buffer_info_, mapped, mapCalls, unmapCalls >>

reqVars == << requests_, reqState, reqControls >>

cbVars == << connected, request_lock_, hpc, hpub, completions >>

tdVars == << stopFailed, unmapTodo, tlog >>

memVars ==
  << paramServer, remove_stride_, use_ros_time_, image_pub_mutex_, reqBuffers,
     initQueued >>

frameVars ==
  << stream, bufSize, ndebug, meta, start_time_offset_,
     start_time_offset_obtained_, hdr, image_msg, row, sink, fpc, oob >>

NoCall == [value |-> NoneValue, id |-> "", result |-> ""]

(* ---------------------- updateControlParameter ------------------------- *)

\* the checks of updateControlParameter in their order: the first that fails
\* names the rejection, "ok" means the value is staged
ucpVerdictNoMinimum(value, id, ctrls) ==
  LET ci == ctrls[id]
      extent == get_extent(id)
  IN  IF isNone(value) THEN "none"
      ELSE IF value.type # IdType(id) THEN "type"
      ELSE IF (value.isArray /\ extent > 0) /\ numElements(value) # extent
        THEN "dimension"
      ELSE IF (IF ci.max > ci.min THEN Greater(value, ci.max) ELSE FALSE)
        THEN "range"
      ELSE "ok"

ucpVerdictRangeFirst(value, id, ctrls) ==
  LET ci == ctrls[id]
      extent == get_extent(id)
  IN  IF isNone(value) THEN "none"
      ELSE IF Less(value, ci.min)
                \/ (IF ci.max > ci.min THEN Greater(value, ci.max) ELSE FALSE)
        THEN "range"
      ELSE IF value.type # IdType(id) THEN "type"
      ELSE IF (value.isArray /\ extent > 0) /\ numElements(value) # extent
        THEN "dimension"
      ELSE "ok"

ucpVerdict(value, id, ctrls) ==
  LET ci == ctrls[id]
      extent == get_extent(id)
  IN  IF isNone(value) THEN "none"
      ELSE IF value.type # IdType(id) THEN "type"
      ELSE IF (value.isArray /\ extent > 0) /\ numElements(value) # extent
        THEN "dimension"
      ELSE IF Less(value, ci.min)
                \/ (IF ci.max > ci.min THEN Greater(value, ci.max) ELSE FALSE)
        THEN "range"
      ELSE "ok"

\* parameters_ after updateControlParameter(value, id)
updateControlParameter(value, id, ctrls, params) ==
  IF ucpVerdict(value, id, ctrls) = "ok"
    THEN [params EXCEPT ![id] = value]
    ELSE params

(* ------------------------------ Init ----------------------------------- *)

\* the members and locals of the frame handler before any frame
FrameAtRest ==
  /\ stream = NoStream
  /\ bufSize = 0
  /\ ndebug = FALSE
  /\ meta = NoMeta
  /\ start_time_offset_ = ZeroTime
  /\ start_time_offset_obtained_ = FALSE
  /\ hdr = ZeroTime
  /\ image_msg = NoImage
  /\ row = 0
  /\ sink = << >>
  /\ fpc = "none"
  /\ oob = FALSE


Init ==
  /\ pc = "loadParams"
  /\ crashed = FALSE
  /\ shutdown = FALSE
  /\ cmRunning = FALSE
  /\ camera_ = "null"
  /\ camState = "Available"
  /\ started = FALSE
  /\ formatType = "RAW"
  /\ controls = [n \in ControlNames |-> NoInfo]
  /\ parameter_ids_ = [n \in ControlNames |-> "absent"]
  /\ parameters_ = NoControls
  /\ derefNull = FALSE
  /\ ctlIdx = 1
  /\ nbuf = 0
  /\ bufIdx = 1
  /\ buffer_info_ = {}
  /\ mapped = [b \in Buffers |-> FALSE]
  /\ mapCalls = [b \in Buffers |-> 0]
  /\ unmapCalls = [b \in Buffers |-> 0]
  /\ requests_ = {}
  /\ reqState = [b \in Buffers |-> "Idle"]
  /\ reqControls = [b \in Buffers |-> NoControls]
  /\ connected = FALSE
  /\ request_lock_ = "free"
  /\ hpc = [b \in Buffers |-> "idle"]
  /\ hpub = [b \in Buffers |-> FALSE]
  /\ completions = 0
  /\ syncStop \in BOOLEAN
  /\ stopFailed = FALSE
  /\ unmapTodo = {}
  /\ tlog = << >>
  /\ ucpLast = NoCall
  /\ paramServer = {}
  /\ remove_stride_ = FALSE
  /\ use_ros_time_ = FALSE
  /\ image_pub_mutex_ = "free"
  /\ reqBuffers = [r \in Buffers |-> {}]
  /\ initQueued = [r \in Buffers |-> 0]
  /\ FrameAtRest

(* ------------------------------ onInit --------------------------------- *)

\* ros::shutdown(); return;  inside onInit
Abort ==
  /\ shutdown' = TRUE
  /\ pc' = "aborted"

\* lines 155-182: load the parameters
LoadParams ==
  /\ pc = "loadParams" /\ ~crashed
  /\ \E present \in SUBSET ParamNames, flags \in LaunchFlags :
       /\ paramServer' = present
       /\ use_ros_time_' =
            IF IsRead(present, 9) THEN flags.use_ros_time ELSE use_ros_time_
       /\ remove_stride_' =
            IF IsRead(present, 10) THEN flags.remove_stride ELSE FALSE
       /\ IF LoadSuccess(present)
            THEN pc' = "cmStart" /\ shutdown' = shutdown
            ELSE Abort
  /\ UNCHANGED << crashed, devVars, ctlVars, bufVars, reqVars, cbVars,
                  syncStop, tdVars, ucpLast, image_pub_mutex_, reqBuffers,
                  initQueued, frameVars >>

\* lines 186-192: start the camera manager, check for cameras
CmStart ==
  /\ pc = "cmStart" /\ ~crashed
  /\ cmRunning' = TRUE
  /\ \E ncams \in 0..1 :
       IF ncams = 0 THEN Abort ELSE pc' = "selectCamera" /\ shutdown' = shutdown
  /\ UNCHANGED << crashed, camera_, camState, started, formatType, ctlVars,
                  bufVars, reqVars, cbVars, syncStop, tdVars, ucpLast, memVars, frameVars >>

\* lines 194-224: select the camera by name or id.  nameEmpty: camera_name is
\* the empty string; anyNull: cameras() holds a null entry; inRange:
\* camera_id, after the name search, is an index of cameras(); chosenNull: the
\* entry at that index is null.  The name search calls ->id() on every entry
\* (line 198), a null entry faults there.
SelectCamera ==
  /\ pc = "selectCamera" /\ ~crashed
  /\ \E nameEmpty \in BOOLEAN, anyNull \in BOOLEAN, inRange \in BOOLEAN,
        chosenNull \in BOOLEAN :
       /\ chosenNull => (anyNull /\ inRange)
       /\ IF ~nameEmpty /\ anyNull
            THEN \* line 198: ->id() on a null pointer
                 crashed' = TRUE /\ UNCHANGED << pc, shutdown, camera_ >>
            ELSE IF ~inRange
              THEN \* lines 209-214
                   Abort /\ UNCHANGED << crashed, camera_ >>
              ELSE IF chosenNull
                THEN \* lines 215-224
                     Abort /\ camera_' = "null" /\ crashed' = crashed
                ELSE /\ pc' = "acquire" /\ shutdown' = shutdown
                     /\ camera_' = "set" /\ crashed' = crashed
  /\ UNCHANGED << cmRunning, camState, started, formatType, ctlVars,
                  bufVars, reqVars, cbVars, syncStop, tdVars, ucpLast,
                  memVars, frameVars >>

\* lines 226-230: camera_->acquire()
Acquire ==
  /\ pc = "acquire" /\ ~crashed
  /\ \E fail \in BOOLEAN :
       IF fail
         THEN Abort /\ camState' = camState
         ELSE pc' = "configure" /\ shutdown' = shutdown /\ camState' = "Acquired"
  /\ UNCHANGED << crashed, cmRunning, camera_, started, formatType, ctlVars,
                  bufVars, reqVars, cbVars, syncStop, tdVars, ucpLast, memVars, frameVars >>

\* lines 232-334: generate, select, validate and apply the stream
\* configuration.  sizeIsNull: resolution/width and resolution/height are both
\* 0; sizesEmpty: the device lists no size for the chosen pixel format, and
\* line 287 takes .back() of the empty list.
ConfigureStream ==
  /\ pc = "configure" /\ ~crashed
  /\ \E outcome \in { "noConfiguration", "noCommonFormat", "invalidFormat",
                      "unsupportedFormat", "invalid", "configureFailed", "ok" },
        ft \in { "RAW", "COMPRESSED" }, sizeIsNull \in BOOLEAN,
        sizesEmpty \in BOOLEAN :
       IF outcome \in { "noConfiguration", "noCommonFormat", "invalidFormat",
                        "unsupportedFormat" }
         THEN \* lines 235, 247, 265, 273
              Abort /\ UNCHANGED << crashed, camState, formatType >>
         ELSE IF sizeIsNull /\ sizesEmpty
           THEN \* line 287: .back() of an empty vector
                crashed' = TRUE
                  /\ UNCHANGED << pc, shutdown, camState, formatType >>
           ELSE IF outcome = "ok"
             THEN /\ pc' = "declare" /\ shutdown' = shutdown
                  /\ camState' = "Configured"
                  /\ formatType' = ft
                  /\ crashed' = crashed
             ELSE \* lines 318, 328
                  Abort /\ UNCHANGED << crashed, camState, formatType >>
  /\ UNCHANGED << cmRunning, camera_, started, ctlVars, bufVars,
                  reqVars, cbVars, syncStop, tdVars, ucpLast, memVars,
                  frameVars >>

\* the ControlInfo the device reports for a control during a run of onInit
DeviceInfo(name) == IF name = "AwbEnable" THEN Info(0, 1) ELSE Info(1, 2)

\* lines 524-552 (called at 336): declareControlParameters.  reported: the
\* controls of camera_->controls(); unhandled: those get_extent throws for;
\* mismatch: a control whose min and max array sizes differ, or "" for none.
\* The map is iterated in an unspecified order, so on a mismatch any of the
\* other handled controls may or may not have been stored already.
declareControlParameters(reported, unhandled, mismatch, stored) ==
  /\ controls' = [n \in ControlNames |->
                    IF n \in reported THEN DeviceInfo(n) ELSE NoInfo]
  /\ IF mismatch = ""
       THEN /\ parameter_ids_' = [n \in ControlNames |->
                 IF n \in reported \ unhandled THEN "id" ELSE parameter_ids_[n]]
            /\ shutdown' = shutdown
       ELSE /\ parameter_ids_' = [n \in ControlNames |->
                 IF n \in stored \cup { mismatch } THEN "id" ELSE parameter_ids_[n]]
            /\ shutdown' = TRUE

\* the devices onInit is run against: the controls the device reports, those
\* get_extent throws for, and a control whose min and max sizes differ ("" for
\* none): a colour sensor, a grayscale sensor without AwbEnable, a sensor with
\* a control this version does not handle, a sensor whose only control has
\* mismatched bounds
DeviceProfiles ==
  { [reported |-> ControlNames, unhandled |-> {}, mismatch |-> ""],
    [reported |-> ControlNames \ { "AwbEnable" }, unhandled |-> {},
     mismatch |-> ""],
    [reported |-> ControlNames, unhandled |-> { "ExposureTime" },
     mismatch |-> ""],
    [reported |-> { "ExposureTime" }, unhandled |-> {},
     mismatch |-> "ExposureTime"] }

Declare ==
  /\ pc = "declare" /\ ~crashed
  /\ \E d \in DeviceProfiles :
       \E stored \in SUBSET (d.reported \ d.unhandled) :
         /\ d.mismatch = "" => stored = d.reported \ d.unhandled
         /\ declareControlParameters(d.reported, d.unhandled, d.mismatch,
                                     stored)
  /\ pc' = "controls"
  /\ ctlIdx' = 1
  /\ UNCHANGED << crashed, devVars, parameters_, derefNull, bufVars, reqVars,
                  cbVars, syncStop, tdVars, ucpLast, memVars, frameVars >>

\* the values pv_to_cv may hand to updateControlParameter for a control
ValueInputs(name) ==
  IF get_extent(name) > 0
    THEN { NoneValue, Array(IdType(name), << 1, 1 >>),
           Array(IdType(name), << MaxVal, MaxVal >>) }
    ELSE { NoneValue, Scalar(IdType(name), 1), Scalar(IdType(name), MaxVal) }

\* lines 344-395: one optional control block of onInit
ControlStep ==
  /\ pc = "controls" /\ ~crashed
  /\ ctlIdx <= Len(ControlBlocks)
  /\ LET block == ControlBlocks[ctlIdx]
         c == block.control
     IN  \E supplied \in BOOLEAN :
           IF ~supplied
             THEN UNCHANGED << crashed, parameter_ids_, parameters_, derefNull >>
             ELSE IF parameter_ids_[c] = "id"
               THEN /\ \E v \in ValueInputs(c) :
                         parameters_' =
                           updateControlParameter(v, c, controls, parameters_)
                    /\ UNCHANGED << crashed, parameter_ids_, derefNull >>
               ELSE \* operator[] inserts a null entry for the missing name
                    /\ parameter_ids_' = [parameter_ids_ EXCEPT ![c] = "null"]
                    /\ parameters_' = parameters_
                    /\ IF block.guarded
                         THEN UNCHANGED << crashed, derefNull >>
                         ELSE \* ->type() on the null pointer
                              derefNull' = TRUE /\ crashed' = TRUE
  /\ ctlIdx' = ctlIdx + 1
  /\ UNCHANGED << pc, shutdown, devVars, controls, bufVars, reqVars, cbVars,
                  syncStop, tdVars, ucpLast, memVars, frameVars >>

\* lines 397-401: allocate the stream buffers
Allocate ==
  /\ pc = "controls" /\ ~crashed
  /\ ctlIdx > Len(ControlBlocks)
  /\ \E n \in 0..NumBuffers : nbuf' = n
  /\ bufIdx' = 1
  /\ pc' = "buffers"
  /\ UNCHANGED << crashed, shutdown, devVars, ctlVars, buffer_info_, mapped,
                  mapCalls, unmapCalls, reqVars, cbVars, syncStop, tdVars,
                  ucpLast, memVars, frameVars >>

\* lines 458-461: the control list of a new request, every entry of
\* parameters_ set on it
requestControlsNone(params) == NoControls

requestControls(params) == params

\* lines 403-464: one iteration of the loop over the allocated buffers: the
\* request created in iteration i is request i of the pool, the buffer of the
\* iteration is buffer i
BufferStep ==
  /\ pc = "buffers" /\ ~crashed
  /\ bufIdx <= nbuf
  /\ \E outcome \in { "noRequest", "invalidOffset", "invalidFd", "fdDiffer",
                      "mmapFailed", "addBufferFailed", "ok" } :
       IF outcome \in { "addBufferFailed", "ok" }
         THEN /\ mapped' = [mapped EXCEPT ![bufIdx] = TRUE]
              /\ mapCalls' = [mapCalls EXCEPT ![bufIdx] = @ + 1]
              /\ buffer_info_' = buffer_info_ \cup { bufIdx }
              /\ IF outcome = "ok"
                   THEN /\ reqBuffers' =
                             [reqBuffers EXCEPT ![bufIdx] = @ \cup { bufIdx }]
                        /\ reqControls' =
                             [reqControls EXCEPT
                                ![bufIdx] = requestControls(parameters_)]
                        /\ requests_' = requests_ \cup { bufIdx }
                        /\ bufIdx' = bufIdx + 1
                        /\ UNCHANGED << pc, shutdown >>
                   ELSE Abort /\ UNCHANGED << reqControls, requests_, bufIdx,
                                             reqBuffers >>
         ELSE /\ Abort
              /\ UNCHANGED << mapped, mapCalls, buffer_info_, reqControls,
                              requests_, bufIdx, reqBuffers >>
  /\ UNCHANGED << crashed, devVars, ctlVars, nbuf, unmapCalls, reqState,
                  cbVars, syncStop, tdVars, ucpLast, paramServer,
                  remove_stride_, use_ros_time_, image_pub_mutex_, initQueued,
                  frameVars >>

\* lines 466-476: calibration manager, publisher, register the callback
ConnectBeforeControls ==
  /\ pc = "controls" /\ ~crashed
  /\ ~connected
  /\ connected' = TRUE
  /\ UNCHANGED << pc, crashed, shutdown, devVars, ctlVars, bufVars, reqVars,
                  request_lock_, hpc, hpub, completions, syncStop, tdVars,
                  ucpLast, memVars, frameVars >>

Connect ==
  /\ pc = "buffers" /\ ~crashed
  /\ bufIdx > nbuf
  /\ connected' = TRUE
  /\ pc' = "start"
  /\ UNCHANGED << crashed, shutdown, devVars, ctlVars, bufVars, reqVars,
                  request_lock_, hpc, hpub, completions, syncStop, tdVars,
                  ucpLast, memVars, frameVars >>

\* lines 478-483: camera_->start()
Start ==
  /\ pc = "start" /\ ~crashed
  /\ \E fail \in BOOLEAN :
       IF fail
         THEN Abort /\ UNCHANGED << camState, started, bufIdx >>
         ELSE /\ camState' = "Running"
              /\ started' = TRUE
              /\ bufIdx' = 1
              /\ pc' = "queue"
              /\ shutdown' = shutdown
  /\ UNCHANGED << crashed, cmRunning, camera_, formatType, ctlVars, nbuf,
                  buffer_info_, mapped, mapCalls, unmapCalls, reqVars, cbVars,
                  syncStop, tdVars, ucpLast, memVars, frameVars >>

\* camera_->queueRequest(r): the device takes the request while it runs
queueRequest(r, state) ==
  IF camState = "Running" THEN [state EXCEPT ![r] = "Queued"] ELSE state

\* lines 485-487: one iteration of the loop queueing the requests
QueueStep ==
  /\ pc = "queue" /\ ~crashed
  /\ bufIdx <= nbuf
  /\ reqState' = queueRequest(bufIdx, reqState)
  /\ initQueued' = [initQueued EXCEPT ![bufIdx] = @ + 1]
  /\ bufIdx' = bufIdx + 1
  /\ UNCHANGED << pc, crashed, shutdown, devVars, ctlVars, nbuf, buffer_info_,
                  mapped, mapCalls, unmapCalls, requests_, reqControls, cbVars,
                  syncStop, tdVars, ucpLast, paramServer, remove_stride_,
                  use_ros_time_, image_pub_mutex_, reqBuffers, frameVars >>

\* lines 489-492: onInit returns
Initialized ==
  /\ pc = "queue" /\ ~crashed
  /\ bufIdx > nbuf
  /\ pc' = "initialized"
  /\ UNCHANGED << crashed, shutdown, devVars, ctlVars, bufVars, reqVars,
                  cbVars, syncStop, tdVars, ucpLast, memVars, frameVars >>

(* --------------------------- device layer ------------------------------ *)

NoHandlerInFlight == \A q \in Buffers : hpc[q] = "idle"

\* the device finishes queued request r with status st and emits
\* requestCompleted; a connected slot is dispatched for it.  With syncStop the
\* completions are dispatched one at a time on the camera manager's thread.
DeviceComplete(r, st) ==
  /\ ~crashed
  /\ cmRunning /\ camState = "Running"
  /\ reqState[r] = "Queued"
  /\ completions < MaxCompletions
  /\ syncStop => NoHandlerInFlight
  /\ reqState' = [reqState EXCEPT ![r] = st]
  /\ completions' = completions + 1
  /\ IF connected
       THEN /\ hpc' = [hpc EXCEPT ![r] = "wait"]
            /\ hpub' = [hpub EXCEPT ![r] = FALSE]
       ELSE UNCHANGED << hpc, hpub >>
  /\ UNCHANGED << pc, crashed, shutdown, devVars, ctlVars, bufVars, requests_,
                  reqControls, connected, request_lock_, syncStop, tdVars,
                  ucpLast, memVars, frameVars >>

(* -------------------------- requestComplete ---------------------------- *)

\* the value of request_lock_ while the handler of request r holds it
Holder(r) == ToString(r)

\* line 601: std::scoped_lock lock(request_lock_)
HandlerLock(r) ==
  /\ ~crashed
  /\ hpc[r] = "wait"
  /\ request_lock_ = "free"
  /\ request_lock_' = Holder(r)
  /\ hpc' = [hpc EXCEPT ![r] = "locked"]
  /\ UNCHANGED << pc, crashed, shutdown, devVars, ctlVars, bufVars, reqVars,
                  connected, hpub, completions, syncStop, tdVars, ucpLast, memVars, frameVars >>

\* lines 603, 633, 663-666, 677: where requestComplete goes for a request
\* status and a format type: copy the frame, return at once, or requeue
statusBranchCancelledReturns(status, ft) ==
  IF status = "Complete"
    THEN IF ft = "RAW" THEN "copy" ELSE "return"
    ELSE "return"

statusBranch(status, ft) ==
  IF status = "Complete"
    THEN IF ft = "RAW" THEN "copy" ELSE "return"
    ELSE "requeue"

\* lines 603-666 and 677-679: branch on the request status and the format
HandlerCheck(r) ==
  /\ ~crashed
  /\ hpc[r] = "locked"
  /\ LET to == statusBranch(reqState[r], formatType)
     IN  IF to = "return"
           THEN \* lines 663-666: log and return, the lock's scope ends
                /\ hpc' = [hpc EXCEPT ![r] = "idle"]
                /\ request_lock_' = "free"
           ELSE /\ hpc' = [hpc EXCEPT ![r] = to]
                /\ request_lock_' = request_lock_
  /\ UNCHANGED << pc, crashed, shutdown, devVars, ctlVars, bufVars, reqVars,
                  connected, hpub, completions, syncStop, tdVars, ucpLast, memVars, frameVars >>

\* lines 645 / 659: the memcpy out of buffer_info_[buffer].data ends
HandlerCopy(r) ==
  /\ ~crashed
  /\ hpc[r] = "copy"
  /\ hpc' = [hpc EXCEPT ![r] = "publish"]
  /\ UNCHANGED << pc, crashed, shutdown, devVars, ctlVars, bufVars, reqVars,
                  connected, request_lock_, hpub, completions, syncStop,
                  tdVars, ucpLast, memVars, frameVars >>

\* the memcpy reads memory that is no longer mapped: the process may fault
HandlerFault(r) ==
  /\ ~crashed
  /\ hpc[r] = "copy"
  /\ ~mapped[r]
  /\ crashed' = TRUE
  /\ UNCHANGED << pc, shutdown, devVars, ctlVars, bufVars, reqVars, cbVars,
                  syncStop, tdVars, ucpLast, memVars, frameVars >>

\* line 672: the value of image_pub_mutex_ once the handler of request r has
\* passed  std::scoped_lock lock(image_pub_mutex_)
imagePubLockNotTaken(r) == "free"

imagePubLock(r) == Holder(r)

\* lines 668-672: the camera info is fetched, image_pub_mutex_ is locked
HandlerPubLock(r) ==
  /\ ~crashed
  /\ hpc[r] = "publish"
  /\ image_pub_mutex_ = "free"
  /\ image_pub_mutex_' = imagePubLock(r)
  /\ hpc' = [hpc EXCEPT ![r] = "publishing"]
  /\ UNCHANGED << pc, crashed, shutdown, devVars, ctlVars, bufVars, reqVars,
                  connected, request_lock_, hpub, completions, syncStop,
                  tdVars, ucpLast, paramServer, remove_stride_, use_ros_time_,
                  reqBuffers, initQueued, frameVars >>

\* lines 674-675: image_pub_.publish, then the scope of the lock ends
HandlerPublish(r) ==
  /\ ~crashed
  /\ hpc[r] = "publishing"
  /\ hpub' = [hpub EXCEPT ![r] = TRUE]
  /\ image_pub_mutex_' = "free"
  /\ hpc' = [hpc EXCEPT ![r] = "requeue"]
  /\ UNCHANGED << pc, crashed, shutdown, devVars, ctlVars, bufVars, reqVars,
                  connected, request_lock_, completions, syncStop, tdVars,
                  ucpLast, paramServer, remove_stride_, use_ros_time_,
                  reqBuffers, initQueued, frameVars >>

\* request->reuse(ReuseBuffers): status and control list are reset, the
\* buffer is kept
reuse(r, ctl) == [ctl EXCEPT ![r] = NoControls]

\* request->reuse(flags) on the buffers of the request: ReuseBuffers keeps
\* them, Default drops them
reuseDefault(r, bufs) == [bufs EXCEPT ![r] = {}]

reuseBuffers(r, bufs) == bufs

\* lines 681-684: reuse the request, queue it again, return
HandlerRequeue(r) ==
  /\ ~crashed
  /\ hpc[r] = "requeue"
  /\ reqControls' = reuse(r, reqControls)
  /\ reqBuffers' = reuseBuffers(r, reqBuffers)
  /\ reqState' = queueRequest(r, [reqState EXCEPT ![r] = "Idle"])
  /\ request_lock_' = "free"
  /\ hpc' = [hpc EXCEPT ![r] = "idle"]
  /\ hpub' = [hpub EXCEPT ![r] = FALSE]
  /\ UNCHANGED << pc, crashed, shutdown, devVars, ctlVars, bufVars, requests_,
                  connected, completions, syncStop, tdVars, ucpLast,
                  paramServer, remove_stride_, use_ros_time_, image_pub_mutex_,
                  initQueued, frameVars >>

(* -------------------------- ~LibcameraRosDriver ------------------------ *)

\* line 499: camera_->requestCompleted.disconnect(); a null camera_ faults
Disconnect ==
  /\ pc \in { "initialized", "aborted" } /\ ~crashed
  /\ IF camera_ = "null"
       THEN crashed' = TRUE /\ UNCHANGED << pc, connected, tlog >>
       ELSE /\ connected' = FALSE
            /\ tlog' = Append(tlog, "disconnect")
            /\ pc' = "d_lock"
            /\ crashed' = crashed
  /\ UNCHANGED << shutdown, devVars, ctlVars, bufVars, reqVars, request_lock_,
                  hpc, hpub, completions, syncStop, stopFailed, unmapTodo,
                  ucpLast, memVars, frameVars >>

\* line 502: std::scoped_lock lock(request_lock_)
DestructorLock ==
  /\ pc = "d_lock" /\ ~crashed
  /\ request_lock_ = "free"
  /\ request_lock_' = "main"
  /\ tlog' = Append(tlog, "lock")
  /\ pc' = "d_stop"
  /\ UNCHANGED << crashed, shutdown, devVars, ctlVars, bufVars, reqVars,
                  connected, hpc, hpub, completions, syncStop, stopFailed,
                  unmapTodo, ucpLast, memVars, frameVars >>

\* Camera::stop() of a running camera waits for the thread that dispatches
\* the completions when syncStop
StopCanReturn == (syncStop /\ camState = "Running") => NoHandlerInFlight

\* lines 504-509: the step that follows camera_->stop(), failed or not
afterStopReturnsOnFailure(failed) == IF failed THEN "done" ELSE "d_release"

afterStop(failed) == "d_release"

\* lines 504-507: camera_->stop() under the lock, then the lock's scope ends.
\* A successful stop cancels the queued requests; the slot is disconnected.
DestructorStop ==
  /\ pc = "d_stop" /\ ~crashed
  /\ StopCanReturn
  /\ \E fail \in BOOLEAN :
       IF camState = "Running" /\ ~fail
         THEN /\ camState' = "Configured"
              /\ reqState' = [r \in Buffers |->
                   IF reqState[r] = "Queued" THEN "Cancelled" ELSE reqState[r]]
              /\ stopFailed' = stopFailed
              /\ pc' = afterStop(FALSE)
         ELSE /\ stopFailed' = TRUE
              /\ pc' = afterStop(TRUE)
              /\ UNCHANGED << camState, reqState >>
  /\ request_lock_' = "free"
  /\ tlog' = Append(tlog, "stop")
  /\ UNCHANGED << crashed, shutdown, cmRunning, camera_, started, formatType,
                  ctlVars, bufVars, requests_, reqControls, connected, hpc,
                  hpub, completions, syncStop, unmapTodo, ucpLast, memVars, frameVars >>

\* line 509: camera_->release()
DestructorRelease ==
  /\ pc = "d_release" /\ ~crashed
  /\ camState' = IF camState \in { "Acquired", "Configured" }
                   THEN "Available" ELSE camState
  /\ tlog' = Append(tlog, "release")
  /\ pc' = "d_cmstop"
  /\ UNCHANGED << crashed, shutdown, cmRunning, camera_, started, formatType,
                  ctlVars, bufVars, reqVars, cbVars, syncStop, stopFailed,
                  unmapTodo, ucpLast, memVars, frameVars >>

\* line 512: the entries the unmapping loop goes through
unmapLoopEntriesOfPool == requests_

unmapLoopEntries == buffer_info_

\* line 510: camera_manager_.stop() ends the device layer's thread
DestructorCmStop ==
  /\ pc = "d_cmstop" /\ ~crashed
  /\ syncStop => NoHandlerInFlight
  /\ cmRunning' = FALSE
  /\ unmapTodo' = unmapLoopEntries
  /\ tlog' = Append(tlog, "cmStop")
  /\ pc' = "d_unmap"
  /\ UNCHANGED << crashed, shutdown, camera_, camState, started, formatType,
                  ctlVars, bufVars, reqVars, cbVars, syncStop, stopFailed,
                  ucpLast, memVars, frameVars >>

\* lines 512-517: one iteration of the loop over buffer_info_: munmap
DestructorUnmap ==
  /\ pc = "d_unmap" /\ ~crashed
  /\ \E b \in unmapTodo :
       /\ unmapTodo' = unmapTodo \ { b }
       /\ unmapCalls' = [unmapCalls EXCEPT ![b] = @ + 1]
       /\ \E fail \in BOOLEAN :
            mapped' = [mapped EXCEPT ![b] = IF fail THEN @ ELSE FALSE]
  /\ UNCHANGED << pc, crashed, shutdown, devVars, ctlVars, nbuf, bufIdx,
                  buffer_info_, mapCalls, reqVars, cbVars, syncStop,
                  stopFailed, tlog, ucpLast, memVars, frameVars >>

\* line 518: the loop is over, the destructor returns
DestructorDone ==
  /\ pc = "d_unmap" /\ ~crashed
  /\ unmapTodo = {}
  /\ tlog' = Append(tlog, "unmap")
  /\ pc' = "done"
  /\ UNCHANGED << crashed, shutdown, devVars, ctlVars, bufVars, reqVars,
                  cbVars, syncStop, stopFailed, unmapTodo, ucpLast, memVars, frameVars >>

(* --------------------------- specification ----------------------------- *)

Next ==
  \/ LoadParams
  \/ CmStart
  \/ SelectCamera
  \/ Acquire
  \/ ConfigureStream
  \/ Declare
  \/ ControlStep
  \/ Allocate
  \/ BufferStep
  \/ Connect
  \/ Start
  \/ QueueStep
  \/ Initialized
  \/ \E r \in Buffers : \E st \in { "Complete", "Cancelled" } :
       DeviceComplete(r, st)
  \/ \E r \in Buffers : HandlerLock(r)
  \/ \E r \in Buffers : HandlerCheck(r)
  \/ \E r \in Buffers : HandlerCopy(r)
  \/ \E r \in Buffers : HandlerFault(r)
  \/ \E r \in Buffers : HandlerPubLock(r)
  \/ \E r \in Buffers : HandlerPublish(r)
  \/ \E r \in Buffers : HandlerRequeue(r)
  \/ Disconnect
  \/ DestructorLock
  \/ DestructorStop
  \/ DestructorRelease
  \/ DestructorCmStop
  \/ DestructorUnmap
  \/ DestructorDone

Spec == Init /\ [][Next]_vars

(* -------------------- validator specification ------------------------- *)

\* the values the validator is called with for a control: none, scalars of
\* the control's type, arrays of it of length 1, 2 and 3 whose elements are
\* equal, and a scalar and an array of another type
CallValues(id) ==
  LET t == IdType(id)
      other == IF t = "Integer32" THEN "Integer64" ELSE "Integer32"
  IN  { NoneValue }
        \cup { Scalar(t, x) : x \in 0..MaxVal }
        \cup { Array(t, << x >>) : x \in 0..MaxVal }
        \cup { Array(t, << x, x >>) : x \in 0..MaxVal }
        \cup { Array(t, << 1, 1, 1 >>) }
        \cup { Scalar(other, 1), Scalar(other, MaxVal),
               Array(other, << 1, 1 >>) }

CallIds == { "ExposureTime", "FrameDurationLimits" }

\* the device has declared its controls with bounds [lo, hi]; nothing is staged
InitCtl ==
  /\ pc = "validator"
  /\ crashed = FALSE
  /\ shutdown = FALSE
  /\ cmRunning = TRUE
  /\ camera_ = "set"
  /\ camState = "Configured"
  /\ started = FALSE
  /\ formatType = "RAW"
  /\ \E lo, hi \in 0..MaxVal :
       controls = [n \in ControlNames |-> Info(lo, hi)]
  /\ parameter_ids_ = [n \in ControlNames |-> "id"]
  /\ parameters_ = NoControls
  /\ derefNull = FALSE
  /\ ctlIdx = 1
  /\ nbuf = 0
  /\ bufIdx = 1
  /\ buffer_info_ = {}
  /\ mapped = [b \in Buffers |-> FALSE]
  /\ mapCalls = [b \in Buffers |-> 0]
  /\ unmapCalls = [b \in Buffers |-> 0]
  /\ requests_ = {}
  /\ reqState = [b \in Buffers |-> "Idle"]
  /\ reqControls = [b \in Buffers |-> NoControls]
  /\ connected = FALSE
  /\ request_lock_ = "free"
  /\ hpc = [b \in Buffers |-> "idle"]
  /\ hpub = [b \in Buffers |-> FALSE]
  /\ completions = 0
  /\ syncStop = TRUE
  /\ stopFailed = FALSE
  /\ unmapTodo = {}
  /\ tlog = << >>
  /\ ucpLast = NoCall
  /\ paramServer = ParamNames
  /\ remove_stride_ = FALSE
  /\ use_ros_time_ = FALSE
  /\ image_pub_mutex_ = "free"
  /\ reqBuffers = [r \in Buffers |-> {}]
  /\ initQueued = [r \in Buffers |-> 0]
  /\ FrameAtRest

\* lines 558-593: one call updateControlParameter(value, id)
UpdateCall(id, value) ==
  /\ pc = "validator"
  /\ parameter_ids_[id] = "id"
  /\ parameters_' = updateControlParameter(value, id, controls, parameters_)
  /\ ucpLast' = [value |-> value, id |-> id,
                 result |-> ucpVerdict(value, id, controls)]
  /\ UNCHANGED << pc, crashed, shutdown, devVars, controls, parameter_ids_,
                  derefNull, ctlIdx, bufVars, reqVars, cbVars, syncStop,
                  tdVars, memVars, frameVars >>

NextCtl == \E id \in CallIds : \E value \in CallValues(id) : UpdateCall(id, value)

SpecCtl == InitCtl /\ [][NextCtl]_vars

(* ------------------- requestComplete: the frame ------------------------ *)

\* lines 620-624: start_time_offset_ after the handler of a completed request
\* with _use_ros_time_ set
captureOffsetEveryFrame(obtained, offset, now, stamp) == TimeMinus(now, stamp)

captureOffset(obtained, offset, now, stamp) ==
  IF obtained THEN offset ELSE TimeMinus(now, stamp)

\* lines 601-629: the status of the request, the header and its stamp.
\* ros::Time + ros::Duration throws when the sum is negative.
FrameStamp ==
  /\ pc = "frames" /\ ~crashed
  /\ fpc = "entry"
  /\ IF meta.status = "Complete"
       THEN LET stamp == fromNSec(meta.timestamp)
                offset == captureOffset(start_time_offset_obtained_,
                                        start_time_offset_, meta.now, stamp)
            IN  IF use_ros_time_
                  THEN /\ start_time_offset_' = offset
                       /\ start_time_offset_obtained_' = TRUE
                       /\ hdr' = TimePlus(stamp, offset)
                       /\ IF TimePlus(stamp, offset).sec < 0
                            THEN crashed' = TRUE /\ fpc' = "aborted"
                            ELSE crashed' = crashed /\ fpc' = "format"
                  ELSE /\ hdr' = stamp
                       /\ fpc' = "format"
                       /\ UNCHANGED << crashed, start_time_offset_,
                                       start_time_offset_obtained_ >>
       ELSE \* lines 677-679: cancelled
            /\ fpc' = "requeue"
            /\ UNCHANGED << crashed, hdr, start_time_offset_,
                            start_time_offset_obtained_ >>
  /\ UNCHANGED << pc, shutdown, devVars, ctlVars, bufVars, reqVars, cbVars,
                  syncStop, tdVars, ucpLast, memVars, stream, bufSize, ndebug,
                  meta, image_msg, row, sink, oob >>

\* lines 633-651 and 663-666: the format, the assert on the byte count, the
\* pass-through copy or the start of the stride removal
FrameFormat ==
  /\ pc = "frames" /\ ~crashed
  /\ fpc = "format"
  /\ IF formatType # "RAW"
       THEN fpc' = "returned" /\ UNCHANGED << crashed, image_msg, row >>
       ELSE IF bufSize # meta.bytesused /\ ~ndebug
         THEN \* assert fails: abort()
              crashed' = TRUE /\ fpc' = "aborted"
                /\ UNCHANGED << image_msg, row >>
         ELSE IF ~remove_stride_
           THEN /\ image_msg' = [step |-> stream.stride,
                                 data |-> copyAll(bufSize)]
                /\ fpc' = "publish"
                /\ UNCHANGED << crashed, row >>
           ELSE /\ image_msg' =
                     [step |-> stream.width * BytesPerPixel,
                      data |-> resize(stream.width * stream.height
                                        * BytesPerPixel)]
                /\ row' = 0
                /\ fpc' = IF stream.height > 0 THEN "rows" ELSE "publish"
                /\ crashed' = crashed
  /\ UNCHANGED << pc, shutdown, devVars, ctlVars, bufVars, reqVars, cbVars,
                  syncStop, tdVars, ucpLast, memVars, stream, bufSize, ndebug,
                  meta, start_time_offset_, start_time_offset_obtained_, hdr,
                  sink, oob >>

\* lines 655-660: one iteration of the stride removal.  A memcpy that reads
\* past the end of the mapping faults or yields bytes that are not the
\* buffer's.
FrameRow ==
  /\ pc = "frames" /\ ~crashed
  /\ fpc = "rows" /\ row < stream.height
  /\ LET inside == row * stream.stride + stream.width * BytesPerPixel
                     <= bufSize
     IN  \E fault \in BOOLEAN :
           /\ fault => ~inside
           /\ oob' = (oob \/ ~inside)
           /\ IF fault
                THEN crashed' = TRUE /\ fpc' = "aborted"
                       /\ UNCHANGED << image_msg, row >>
                ELSE /\ image_msg' =
                          [image_msg EXCEPT
                             !.data = copyRow(@, row, stream, bufSize)]
                     /\ row' = row + 1
                     /\ fpc' = IF row + 1 < stream.height
                                 THEN "rows" ELSE "publish"
                     /\ crashed' = crashed
  /\ UNCHANGED << pc, shutdown, devVars, ctlVars, bufVars, reqVars, cbVars,
                  syncStop, tdVars, ucpLast, memVars, stream, bufSize, ndebug,
                  meta, start_time_offset_, start_time_offset_obtained_, hdr,
                  sink >>

\* lines 668-675: image_pub_.publish(image_msg, cinfo_msg)
FramePublish ==
  /\ pc = "frames" /\ ~crashed
  /\ fpc = "publish"
  /\ sink' = Append(sink, [no |-> meta.no, timestamp |-> meta.timestamp,
                           stamp |-> hdr, step |-> image_msg.step,
                           data |-> image_msg.data])
  /\ fpc' = "requeue"
  /\ UNCHANGED << pc, crashed, shutdown, devVars, ctlVars, bufVars, reqVars,
                  cbVars, syncStop, tdVars, ucpLast, memVars, stream, bufSize,
                  ndebug, meta, start_time_offset_,
                  start_time_offset_obtained_, hdr, image_msg, row, oob >>

\* lines 681-684: reuse, queueRequest, return
FrameRequeue ==
  /\ pc = "frames" /\ ~crashed
  /\ fpc = "requeue"
  /\ fpc' = "requeued"
  /\ UNCHANGED << pc, crashed, shutdown, devVars, ctlVars, bufVars, reqVars,
                  cbVars, syncStop, tdVars, ucpLast, memVars, stream, bufSize,
                  ndebug, meta, start_time_offset_,
                  start_time_offset_obtained_, hdr, image_msg, row, sink, oob >>

\* what ros::Time::now() may return: a simulated clock shortly after its
\* start, the wall clock
ClockInputs ==
  { [sec |-> 0, nsec |-> 1], [sec |-> 1700000000, nsec |-> NsPerSec - 1] }

\* by how much the device timestamp of a request exceeds the one before
StampSteps == { 1, 3 }

\* the device completes the request again and the handler is invoked for it:
\* only a request the handler has queued again (line 683) can complete; after
\* the return at line 665 the request of the pool is not queued any more
FrameNext ==
  /\ pc = "frames" /\ ~crashed
  /\ fpc = "requeued"
  /\ meta.no < MaxFrames
  /\ \E status \in { "Complete", "Cancelled" }, d \in StampSteps,
        now \in ClockInputs :
       meta' = Meta(meta.no + 1,
                    meta.completed + (IF status = "Complete" THEN 1 ELSE 0),
                    status, bufSize, meta.timestamp + d, now)
  /\ fpc' = "entry"
  /\ hdr' = ZeroTime
  /\ image_msg' = NoImage
  /\ row' = 0
  /\ UNCHANGED << pc, crashed, shutdown, devVars, ctlVars, bufVars, reqVars,
                  cbVars, syncStop, tdVars, ucpLast, memVars, stream, bufSize,
                  ndebug, start_time_offset_, start_time_offset_obtained_,
                  sink, oob >>

\* the driver after onInit with one buffer: the device runs, the request of
\* the pool has completed and its handler holds request_lock_
Capturing ==
  /\ pc = "frames"
  /\ crashed = FALSE
  /\ shutdown = FALSE
  /\ cmRunning = TRUE
  /\ camera_ = "set"
  /\ camState = "Running"
  /\ started = TRUE
  /\ controls = [n \in ControlNames |-> DeviceInfo(n)]
  /\ parameter_ids_ = [n \in ControlNames |-> "id"]
  /\ parameters_ = NoControls
  /\ derefNull = FALSE
  /\ ctlIdx = Len(ControlBlocks) + 1
  /\ nbuf = 1
  /\ bufIdx = 2
  /\ buffer_info_ = { 1 }
  /\ mapped = [b \in Buffers |-> b = 1]
  /\ mapCalls = [b \in Buffers |-> IF b = 1 THEN 1 ELSE 0]
  /\ unmapCalls = [b \in Buffers |-> 0]
  /\ requests_ = { 1 }
  /\ reqState = [b \in Buffers |-> IF b = 1 THEN "Complete" ELSE "Idle"]
  /\ reqControls = [b \in Buffers |-> NoControls]
  /\ connected = TRUE
  /\ request_lock_ = Holder(1)
  /\ hpc = [b \in Buffers |-> "idle"]
  /\ hpub = [b \in Buffers |-> FALSE]
  /\ completions = 0
  /\ syncStop = TRUE
  /\ stopFailed = FALSE
  /\ unmapTodo = {}
  /\ tlog = << >>
  /\ ucpLast = NoCall
  /\ paramServer = ParamNames
  /\ image_pub_mutex_ = "free"
  /\ reqBuffers = [r \in Buffers |-> IF r = 1 THEN { 1 } ELSE {}]
  /\ initQueued = [r \in Buffers |-> IF r = 1 THEN 1 ELSE 0]
  /\ start_time_offset_ = ZeroTime
  /\ start_time_offset_obtained_ = FALSE
  /\ hdr = ZeroTime
  /\ image_msg = NoImage
  /\ row = 0
  /\ sink = << >>
  /\ fpc = "entry"
  /\ oob = FALSE

\* the device timestamp of the first request, shortly before a full second
FirstStamp == NsPerSec - 2

(* ---------------------- frame specification --------------------------- *)

\* one completed request, for every stream configuration within the bounds:
\* stride = width * bytes per pixel + padding, the mapping holds height rows
InitFrame ==
  /\ Capturing
  /\ formatType \in { "RAW", "COMPRESSED" }
  /\ remove_stride_ \in BOOLEAN
  /\ use_ros_time_ \in BOOLEAN
  /\ ndebug \in BOOLEAN
  /\ \E w \in 1..MaxWidth, h \in 1..MaxHeight, bpp \in FormatBytes,
        pad \in 0..MaxPad :
       /\ stream = [width |-> w, height |-> h, stride |-> w * bpp + pad,
                    bpp |-> bpp]
       /\ bufSize = h * (w * bpp + pad)
  /\ \E status \in { "Complete", "Cancelled" }, short \in 0..1 :
       meta = Meta(1, IF status = "Complete" THEN 1 ELSE 0, status,
                   bufSize - short, FirstStamp, [sec |-> 0, nsec |-> 1])

NextFrame ==
  \/ FrameStamp
  \/ FrameFormat
  \/ FrameRow
  \/ FramePublish
  \/ FrameRequeue

SpecFrame == InitFrame /\ [][NextFrame]_vars

(* -------------------- timestamp specification ------------------------- *)

\* up to MaxFrames completed requests of a stream of one pixel
InitStamp ==
  /\ Capturing
  /\ formatType \in { "RAW", "COMPRESSED" }
  /\ remove_stride_ \in BOOLEAN
  /\ use_ros_time_ \in BOOLEAN
  /\ ndebug = FALSE
  /\ stream = [width |-> 1, height |-> 1, stride |-> BytesPerPixel,
               bpp |-> BytesPerPixel]
  /\ bufSize = BytesPerPixel
  /\ \E status \in { "Complete", "Cancelled" }, now \in ClockInputs :
       meta = Meta(1, IF status = "Complete" THEN 1 ELSE 0, status, bufSize,
                   FirstStamp, now)

NextStamp ==
  \/ FrameStamp
  \/ FrameFormat
  \/ FrameRow
  \/ FramePublish
  \/ FrameRequeue
  \/ FrameNext

SpecStamp == InitStamp /\ [][NextStamp]_vars

(* ------------------------------ claims --------------------------------- *)

\* C1: no completion handler reads a buffer's mapped memory at the same time
\* as or after teardown unmaps that buffer: while a handler copies out of a
\* buffer, the buffer is mapped.
C1_NoReadOfUnmappedBuffer ==
  \A r \in Buffers : hpc[r] = "copy" => mapped[r]

\* C2: whenever requestComplete resubmits a request, the request is queued
\* carrying the staged control values (parameters_) of that moment, in every
\* cycle and not only on the submission of startup.
C2_ResubmitCarriesStagedControls ==
  [][\A r \in Buffers :
       (hpc[r] = "requeue" /\ hpc'[r] = "idle")
         => /\ reqControls'[r] = parameters_
            /\ (camState = "Running" => reqState'[r] = "Queued")]_vars

\* C3: with a pixel format outside the RAW family a completed frame is
\* dropped and the capture loop goes on: while the device runs, every request
\* of the pool is queued at the device or held by a handler that requeues it.
C3_NonRawKeepsCycling ==
  (pc = "initialized" /\ formatType # "RAW")
    => \A r \in requests_ : reqState[r] = "Queued" \/ hpc[r] # "idle"

\* C4: an optional control parameter the user supplies for a control the
\* device did not declare is rejected without dereferencing the absent control
\* id, and nothing is staged for it.
C4_UndeclaredControlRejected ==
  /\ ~derefNull
  /\ \A c \in ControlNames :
       parameter_ids_[c] # "id" => parameters_[c] = NoEntry

\* min <= value and (max <= min or value <= max), for every element
InBounds(v, ci) ==
  \A i \in DOMAIN v.elems :
    ci.min <= v.elems[i] /\ (ci.max <= ci.min \/ v.elems[i] <= ci.max)

\* C5: after any sequence of updateControlParameter calls every staged value
\* satisfies min <= value and (max <= min or value <= max) for its control's
\* bounds, and a call whose value violates either clause is rejected and
\* leaves the staged values as they were.
C5_StagedValuesInBounds ==
  /\ [](\A c \in ControlNames :
          parameters_[c] # NoEntry => InBounds(parameters_[c], controls[c]))
  /\ [][(ucpLast'.id # ""
           /\ ~InBounds(ucpLast'.value, controls[ucpLast'.id]))
          => (ucpLast'.result # "ok" /\ parameters_' = parameters_)]_vars

\* C5 witness: with bounds [1, 2], 2 is staged for ExposureTime, then MaxVal is
\* requested, rejected as out of range, and 2 is still staged
C5_Witness ==
  /\ controls["ExposureTime"] = Info(1, 2)
  /\ parameters_["ExposureTime"] = Scalar("Integer32", 2)
  /\ ucpLast = [value |-> Scalar("Integer32", MaxVal), id |-> "ExposureTime",
                result |-> "range"]

\* C6: every buffer mapped during startup has its entry in buffer_info_, is
\* mapped once, and is unmapped once by teardown, after a normal run and after
\* an aborted startup alike.
C6_MappedOnceUnmappedOnce ==
  \A b \in Buffers :
    /\ mapCalls[b] <= 1
    /\ (mapCalls[b] = 1) <=> (b \in buffer_info_)
    /\ unmapCalls[b] <= mapCalls[b]
    /\ pc = "done" => unmapCalls[b] = mapCalls[b]

\* C6 witness: startup aborted after buffer 1 was mapped and before it joined
\* the pool; teardown has unmapped it
C6_Witness ==
  /\ pc = "done" /\ shutdown /\ ~started
  /\ mapCalls[1] = 1 /\ unmapCalls[1] = 1 /\ ~mapped[1]
  /\ 1 \notin requests_

StartupSteps ==
  { "loadParams", "cmStart", "selectCamera", "acquire", "configure", "declare",
    "controls", "buffers", "start", "queue", "initialized" }

\* C7: a fatal failure detected before the device is started stops startup:
\* no further startup step runs, the device is never started and no request
\* is ever queued.
C7_FatalFailureStopsStartup ==
  shutdown =>
    /\ pc \notin StartupSteps
    /\ ~started
    /\ \A r \in Buffers : reqState[r] = "Idle"

TeardownOrder == << "disconnect", "lock", "stop", "release", "cmStop", "unmap" >>

\* the number of steps of TeardownOrder done when the destructor is at a step
TeardownDone(p) ==
  CASE p = "d_lock" -> 1
    [] p = "d_stop" -> 2
    [] p = "d_release" -> 3
    [] p = "d_cmstop" -> 4
    [] p = "d_unmap" -> 5
    [] p = "done" -> 6
    [] OTHER -> 0

\* C8: teardown performs disconnect, lock, stop, release, manager stop, unmap
\* in this order and performs every one of them, also when the stop of the
\* device or an earlier munmap reports failure.
C8_TeardownOrder ==
  /\ tlog = SubSeq(TeardownOrder, 1, TeardownDone(pc))
  /\ pc = "done" => unmapTodo = {} /\ \A b \in buffer_info_ : unmapCalls[b] = 1
  /\ pc \in { "d_lock", "d_stop", "d_release", "d_cmstop" }
       => \A b \in Buffers : unmapCalls[b] = 0

\* C8 witness: teardown of a running device ended after the stop of the device
\* and the munmap of buffer 1 both reported failure
C8_Witness ==
  /\ pc = "done" /\ started /\ stopFailed
  /\ nbuf = 2
  /\ unmapCalls[1] = 1 /\ mapped[1]
  /\ unmapCalls[2] = 1 /\ ~mapped[2]
  /\ tlog = TeardownOrder

\* C9: a handler invoked for a Cancelled request hands nothing to the publish
\* sink and reuses the request and queues it to the device again.
C9_CancelledNotPublishedRequeued ==
  /\ [](\A r \in Buffers :
          /\ hpub[r] => reqState[r] = "Complete"
          /\ hpc[r] \in { "copy", "publish", "publishing" }
               => reqState[r] = "Complete")
  /\ [][\A r \in Buffers :
          (hpc[r] # "idle" /\ reqState[r] = "Cancelled" /\ hpc'[r] = "idle")
            => /\ hpc[r] = "requeue" /\ ~hpub[r]
               /\ reqControls'[r] = NoControls
               /\ reqState'[r] = IF camState = "Running" THEN "Queued" ELSE "Idle"]_vars

\* C9 witness: the only request of a stream that is not RAW was completed
\* once and is queued again: it was cancelled, reused and requeued
C9_Witness ==
  /\ pc = "initialized" /\ nbuf = 1 /\ completions = 1
  /\ formatType # "RAW"
  /\ reqState[1] = "Queued" /\ hpc[1] = "idle"

TeardownSteps == { "d_lock", "d_stop", "d_release", "d_cmstop", "d_unmap" }

\* C10: teardown always terminates: while the destructor is under way it or
\* a completion handler it waits for can take a step, and no state is
\* reachable in which the teardown thread, holding request_lock_ inside the
\* blocking stop of the device, and a completion callback waiting for
\* request_lock_ block each other for ever.
C10_TeardownNeverBlocked ==
  (pc \in TeardownSteps /\ ~crashed)
    => /\ ENABLED Next
       /\ ~(/\ pc = "d_stop" /\ request_lock_ = "main"
            /\ ~StopCanReturn
            /\ \E r \in Buffers : hpc[r] = "wait")

CompulsoryParams ==
  { "camera_name", "stream_role", "pixel_format", "frame_id", "calib_url",
    "resolution/width", "resolution/height", "use_ros_time" }

\* C11: when a compulsory parameter is missing, onInit requests shutdown and
\* returns before the camera manager is started and before a camera is
\* acquired or configured or a buffer is allocated or mapped.
C11_MissingCompulsoryAborts ==
  (pc # "loadParams" /\ CompulsoryParams \ paramServer # {})
    => /\ shutdown /\ pc = "aborted"
       /\ ~cmRunning /\ camera_ = "null" /\ camState = "Available" /\ ~started
       /\ nbuf = 0 /\ buffer_info_ = {} /\ requests_ = {}
       /\ \A b \in Buffers : mapCalls[b] = 0 /\ ~mapped[b]

\* C11 witness: only use_ros_time, the last compulsory parameter, is missing
\* and onInit has returned
C11_Witness ==
  /\ paramServer = ParamNames \ { "use_ros_time" }
  /\ pc = "aborted" /\ shutdown /\ ~cmRunning

\* C15: every munmap of teardown is performed while the teardown thread holds
\* request_lock_.
C15_UnmapUnderRequestLock ==
  [][(\E b \in Buffers : unmapCalls'[b] # unmapCalls[b])
       => request_lock_ = "main"]_vars

\* C16: onInit queues each request of the pool exactly once, only after the
\* device was started, and the request then carries every value staged in
\* parameters_; when the start of the device fails no request is queued.
C16_StartupQueuesOnceWithControls ==
  /\ [](\A r \in Buffers :
          /\ initQueued[r] <= 1
          /\ initQueued[r] = 1 => (started /\ r \in requests_)
          /\ (started /\ pc \notin { "start", "queue" } /\ r \in requests_)
               => initQueued[r] = 1
          /\ ~started => reqState[r] = "Idle")
  /\ [][\A r \in Buffers :
          initQueued'[r] # initQueued[r]
            => /\ started /\ camState = "Running"
               /\ reqState[r] = "Idle" /\ reqState'[r] = "Queued"
               /\ reqControls[r] = parameters_
               /\ reqControls'[r] = reqControls[r]]_vars

\* C16 witness: onInit has returned, both requests were queued by it once,
\* carrying the staged exposure time, and nothing has completed yet
C16_Witness ==
  /\ pc = "initialized" /\ completions = 0
  /\ initQueued[1] = 1 /\ initQueued[2] = 1
  /\ parameters_["ExposureTime"] = Scalar("Integer32", 1)
  /\ reqControls[1] = parameters_ /\ reqControls[2] = parameters_
  /\ reqState[1] = "Queued" /\ reqState[2] = "Queued"

\* C17: from the start of the device on, the pool has as many requests as
\* there are allocated buffers and entries of buffer_info_, every request
\* holds exactly one buffer, no two requests hold the same buffer, and the
\* buffer of a request is still the one attached to it at startup.
C17_PoolMatchesBuffers ==
  started =>
    /\ Cardinality(requests_) = nbuf
    /\ Cardinality(buffer_info_) = nbuf
    /\ \A r \in requests_ :
         /\ Cardinality(reqBuffers[r]) = 1
         /\ reqBuffers[r] = { r }
         /\ reqBuffers[r] \subseteq buffer_info_
         /\ \A q \in requests_ \ { r } : reqBuffers[r] \cap reqBuffers[q] = {}

\* C17 witness: two requests, two completions, both requests reused and
\* queued again, each still with its buffer
C17_Witness ==
  /\ started /\ nbuf = 2 /\ completions = 2 /\ formatType = "RAW"
  /\ pc = "initialized"
  /\ \A r \in Buffers : reqState[r] = "Queued" /\ hpc[r] = "idle"
  /\ reqBuffers[1] = { 1 } /\ reqBuffers[2] = { 2 }

\* C19: every write to parameters_ happens during startup, before the
\* completion callback is connected and before the device is started: no
\* write happens while a handler runs or while the device runs.
C19_StagedControlsWrittenAtStartupOnly ==
  [][parameters_' # parameters_
       => /\ pc = "controls"
          /\ ~connected /\ ~started /\ camState # "Running"
          /\ \A r \in Buffers : hpc[r] = "idle" /\ reqState[r] = "Idle"]_vars

\* C19 witness: an exposure time was staged and a completion handler runs
\* while the device is running
C19_Witness ==
  /\ parameters_["ExposureTime"] = Scalar("Integer32", 1)
  /\ camState = "Running" /\ connected
  /\ hpc[1] = "locked"

\* C20: the publish sink is entered by one handler at a time: a handler
\* publishes while holding image_pub_mutex_, it takes image_pub_mutex_ while
\* holding request_lock_, and a handler that is about to take
\* image_pub_mutex_ finds it free.
C20_PublishSerialized ==
  /\ \A r \in Buffers :
       hpc[r] = "publishing"
         => /\ image_pub_mutex_ = Holder(r)
            /\ request_lock_ = Holder(r)
            /\ \A q \in Buffers \ { r } : hpc[q] # "publishing"
  /\ image_pub_mutex_ # "free" => request_lock_ = image_pub_mutex_
  /\ (\E r \in Buffers : hpc[r] = "publish") => image_pub_mutex_ = "free"

\* C20 witness: the handler of request 1 is inside the publish call while the
\* handler of request 2 waits for request_lock_
C20_Witness ==
  /\ hpc[1] = "publishing" /\ image_pub_mutex_ = Holder(1)
  /\ hpc[2] = "wait"

\* C18: updateControlParameter checks the type, then the element count (only
\* for an array value and a control of non-zero extent), then the range, and
\* the first check that fails names the rejection: a value of the wrong type
\* is rejected for its type also when it is out of range, and an array for a
\* control of extent 0 is never rejected for its element count.
C18_ChecksInOrder ==
  (ucpLast.id # "" /\ ~isNone(ucpLast.value)) =>
    LET v == ucpLast.value
        id == ucpLast.id
        typeBad == v.type # IdType(id)
        countBad == /\ v.isArray /\ get_extent(id) > 0
                    /\ numElements(v) # get_extent(id)
        rangeBad == ~InBounds(v, controls[id])
    IN  /\ typeBad => ucpLast.result = "type"
        /\ (~typeBad /\ countBad) => ucpLast.result = "dimension"
        /\ (~typeBad /\ ~countBad /\ rangeBad) => ucpLast.result = "range"
        /\ (~typeBad /\ ~countBad /\ ~rangeBad) => ucpLast.result = "ok"
        /\ get_extent(id) = 0 => ucpLast.result # "dimension"

\* C18 witness: with bounds [0, 1] an array of three elements was staged for
\* ExposureTime, a control of extent 0, and then a value of another type and
\* above the maximum was rejected for its type
C18_Witness ==
  /\ controls["ExposureTime"] = Info(0, 1)
  /\ parameters_["ExposureTime"] = Array("Integer32", << 1, 1, 1 >>)
  /\ ucpLast = [value |-> Scalar("Integer64", MaxVal), id |-> "ExposureTime",
                result |-> "type"]

\* C12: in stride-removed mode, for every width, height, stride and bytes per
\* pixel bpp of the stream, a published payload has row length width * bpp and
\* total length height * width * bpp, and its row i holds the source bytes
\* [i * stride, i * stride + width * bpp).
C12_StrideRemovedPayload ==
  remove_stride_ =>
    \A k \in DOMAIN sink :
      /\ sink[k].step = stream.width * stream.bpp
      /\ Len(sink[k].data) = stream.height * stream.width * stream.bpp
      /\ \A i \in 0..(stream.height - 1) :
           \A j \in 0..(stream.width * stream.bpp - 1) :
             sink[k].data[i * sink[k].step + j + 1] = i * stream.stride + j

\* C13: when the bytesused of a completed buffer differ from its mapped
\* length, the frame is not published, the process keeps running and the
\* handler goes on to reuse and requeue the request.
C13_ByteCountMismatchDropsFrame ==
  (/\ meta.status = "Complete" /\ formatType = "RAW"
   /\ meta.bytesused # bufSize
   /\ fpc \notin { "entry", "format" })
    => /\ ~crashed
       /\ fpc \in { "requeue", "requeued" }
       /\ \A k \in DOMAIN sink : sink[k].no # meta.no

\* C14: with use_ros_time the offset between the clock and the device clock
\* is captured once, by the handler of the first request with status
\* Complete, and never changes afterwards; every published stamp is the
\* device timestamp plus that offset, so the stamps of two published frames
\* differ by the difference of their device timestamps.  Without use_ros_time
\* the published stamp is the device timestamp.
C14_OffsetCapturedOnce ==
  /\ [](\A k \in DOMAIN sink :
          /\ use_ros_time_
               => /\ start_time_offset_obtained_
                  /\ sink[k].stamp = TimePlus(fromNSec(sink[k].timestamp),
                                              start_time_offset_)
          /\ ~use_ros_time_
               => sink[k].stamp.sec * NsPerSec + sink[k].stamp.nsec
                    = sink[k].timestamp
          /\ \A l \in DOMAIN sink :
               TimeMinus(sink[k].stamp, sink[l].stamp)
                 = TimeMinus(fromNSec(sink[k].timestamp),
                             fromNSec(sink[l].timestamp)))
  /\ []((use_ros_time_ /\ ~start_time_offset_obtained_)
          => \/ meta.completed = 0
             \/ meta.completed = 1 /\ meta.status = "Complete" /\ fpc = "entry")
  /\ [][/\ start_time_offset_obtained_
             => /\ start_time_offset_obtained_'
                /\ start_time_offset_' = start_time_offset_
        /\ (~start_time_offset_obtained_ /\ start_time_offset_obtained_')
             => /\ use_ros_time_ /\ fpc = "entry" /\ meta.status = "Complete"
                /\ start_time_offset_'
                     = TimeMinus(meta.now, fromNSec(meta.timestamp))
        /\ ~start_time_offset_obtained_'
             => start_time_offset_' = start_time_offset_]_vars

\* C14 witness: the first request was cancelled, the second and the third
\* were published with stamps taken from the simulated clock, which is
\* behind the device clock
C14_Witness ==
  /\ use_ros_time_ /\ Len(sink) = 2
  /\ sink[1].no = 2 /\ sink[2].no = 3
  /\ start_time_offset_.sec < 0
  /\ sink[1].stamp = [sec |-> 0, nsec |-> 1]
  /\ sink[2].timestamp = sink[1].timestamp + 3
  /\ sink[2].stamp = [sec |-> 0, nsec |-> 4]

\* the steps of the destructor log, as a set
TeardownLogged == { tlog[i] : i \in DOMAIN tlog }

\* C21: teardown calls disconnect, stop and release only on a device handle
\* that startup obtained: after a startup that aborted before a camera was
\* selected the destructor does not dereference the unset camera_, and it
\* does not stop or release a device that was never started or acquired.
C21_TeardownOnlyOnObtainedDevice ==
  /\ (pc = "aborted" /\ camera_ = "null") => ~crashed
  /\ "stop" \in TeardownLogged => started
  /\ "release" \in TeardownLogged => pc \notin StartupSteps

\* C22: in stride-removed mode every byte the handler reads lies inside the
\* mapping of the buffer: for every row i below height,
\* i * stride + width * 3 <= mapped length, for every stream configuration.
C22_ReadsInsideMapping ==
  /\ ~oob
  /\ (remove_stride_ /\ fpc = "rows")
       => \A i \in 0..(stream.height - 1) :
            i * stream.stride + stream.width * BytesPerPixel <= bufSize

\* the destructor has stopped the device
DeviceStopped ==
  /\ pc \in { "d_release", "d_cmstop", "d_unmap", "done" }
  /\ camState # "Running"

\* C23: queueRequest is never called for a request that is queued at the
\* device, whether by the queueing loop of onInit or by a completion handler,
\* and it is never called after teardown has stopped the device.
C23_NoDoubleOrLateQueue ==
  [][\A r \in Buffers :
       /\ (\/ initQueued'[r] # initQueued[r]
           \/ hpc[r] = "requeue" /\ hpc'[r] = "idle")
            => reqState[r] # "Queued"
       /\ (hpc[r] = "requeue" /\ hpc'[r] = "idle") => ~DeviceStopped]_vars

\* C24: the absence of an optional parameter (camera_id, remove_stride) does
\* not abort startup: when every compulsory parameter is on the parameter
\* server onInit goes on to start the camera manager, and remove_stride_ is
\* false when remove_stride is absent.
C24_OptionalAbsenceDoesNotAbort ==
  /\ (pc = "aborted" /\ ~cmRunning) => CompulsoryParams \ paramServer # {}
  /\ (pc # "loadParams" /\ "remove_stride" \notin paramServer)
       => ~remove_stride_

====
